---- MODULE Spec2Model ----
(***************************************************************************)
(* Model of src/src/omnisharp/launcher.ts: the launch-target classifier    *)
(* (resourcesToLaunchTargets / resourcesAndFolderMapToLaunchTargets), the  *)
(* Windows argument escaping (launchWindows.escapeIfNeeded) and the        *)
(* process launcher (launchOmniSharp / launch / launchDotnet /             *)
(* launchWindows / launchNix / launchNixMono).                             *)
(*                                                                         *)
(* Strings are sequences of tokens.  A token is one character, or a run of *)
(* characters none of which is a space, a double quote, '&' or '^',        *)
(* written as one TLA+ string (e.g. "--debug").  The paths the classifier  *)
(* takes apart are written character by character.                         *)
(***************************************************************************)
EXTENDS Integers, Sequences, FiniteSets, TLC

VARIABLES
    \* ---- classifier call (resourcesToLaunchTargets) ----
    resources,          \* the resources argument: sequence of Uri records
    workspaceFolders,   \* the workspaceFolders argument: sequence of root paths
    maxProjectResults,  \* the maxProjectResults argument
    cpc,                \* "input" before the call, then "returned" or "threw"
    targets             \* the returned LaunchTarget[] (when cpc = "returned")

cvars == <<resources, workspaceFolders, maxProjectResults, cpc, targets>>

VARIABLES
    \* ---- one application of launchWindows.escapeIfNeeded ----
    arg,                \* the argument
    escaped,            \* the value returned for it
    epc                 \* "input" before the application, then "done"

evars == <<arg, escaped, epc>>

VARIABLES
    \* ---- calls of launchOmniSharp ----
    lpc,                \* position of the current call
    launches,           \* number of calls made so far
    callerArgs,         \* the caller's args array (passed by reference)
    argsAtCall,         \* its contents when the current call was made
    options,            \* options.{useModernNet, waitForDebugger, useEditorFormattingSettings}
    isWindows,          \* platformInfo.isWindows()
    launchPath,         \* the launchPath argument
    editorConfig,       \* the editor configuration read by launch
    spawnInJob,         \* the code calling spawn ran as a promise job
    strategies,         \* the launch strategies run by the current call, in order
    consulted,          \* the resolvers whose getHostExecutableInfo was called
    spawned,            \* the spawn calls issued: [command, args, env, verbatim]
    result,             \* <<>> or the one IntermediateLaunchResult of launch()
    promise,            \* the promise made by launchOmniSharp: [state, value]
    listeners,          \* the events of the process that have a listener
    tick,               \* the first lifecycle event is queued (process.nextTick)
    emitted             \* the lifecycle events the process has emitted, in order

lvars == <<lpc, launches, callerArgs, argsAtCall, options, isWindows, launchPath,
           editorConfig, spawnInJob, strategies, consulted, spawned, result,
           promise, listeners, tick, emitted>>

vars == <<cvars, evars, lvars>>

(***************************************************************************)
(* Bounds of the model.                                                    *)
(***************************************************************************)
MaxResources == 3     \* longest resource list handed to the classifier
MaxLimit == 2         \* largest maxProjectResults tried (smallest is -1)
MaxArgLen == 3        \* longest argument handed to escapeIfNeeded
MaxLaunches == 2      \* calls of launchOmniSharp with the same args array
MaxEvents == 2        \* lifecycle events one process emits

(***************************************************************************)
(* Generic helpers on sequences.                                           *)
(***************************************************************************)
Min(a, b) == IF a < b THEN a ELSE b

\* Array.prototype.slice(0, n) for n >= 0
Slice0(s, n) == SubSeq(s, 1, Min(n, Len(s)))

\* every sequence over S of length 0..n
SeqsUpTo(S, n) == UNION {[1..k -> S] : k \in 0..n}

\* Op applied to the value of a, with a evaluated once (const x = a; Op(x))
Let1(Op(_), a) == CHOOSE out \in {Op(x) : x \in {a}} : TRUE

(***************************************************************************)
(* Paths (node's path module, posix flavour) and vscode.Uri.               *)
(***************************************************************************)
\* index of the last "/" of p, 0 when there is none
LastSlash(p) ==
    LET S == {i \in DOMAIN p : p[i] = "/"}
    IN IF S = {} THEN 0 ELSE CHOOSE i \in S : \A j \in S : j <= i

\* path.dirname
dirname(p) ==
    LET i == LastSlash(p)
    IN IF i = 0 THEN <<".">>
       ELSE IF i = 1 THEN <<"/">>
       ELSE SubSeq(p, 1, i - 1)

\* path.basename
basename(p) == SubSeq(p, LastSlash(p) + 1, Len(p))

\* String.prototype.toLowerCase on one character (the /i flag of the regexes)
Lower(c) ==
    CASE c = "X" -> "x" [] c = "S" -> "s" [] c = "L" -> "l"
      [] c = "N" -> "n" [] c = "F" -> "f" [] OTHER -> c

\* pattern element matching any character (the regex '.')
AnyChar == "<any>"

\* /<pat>$/i.test(p): p ends with pat, case-insensitively; AnyChar matches
\* every character
TestSuffixI(p, pat) ==
    /\ Len(p) >= Len(pat)
    /\ \A i \in DOMAIN pat :
          \/ pat[i] = AnyChar
          \/ Lower(p[Len(p) - Len(pat) + i]) = pat[i]

isCSharpProject(resource) ==
    TestSuffixI(resource.fsPath, <<".", "c", "s", "p", "r", "o", "j">>)

isSolution(resource) ==
    \/ TestSuffixI(resource.fsPath, <<".", "s", "l", "n">>)
    \/ TestSuffixI(resource.fsPath, <<".", "s", "l", "n", "f">>)

\* /\project.json$/i : '\p' is the letter p and '.' is any character
isProjectJson(resource) ==
    TestSuffixI(resource.fsPath,
        <<"p", "r", "o", "j", "e", "c", "t", AnyChar, "j", "s", "o", "n">>)

isCsx(resource) == TestSuffixI(resource.fsPath, <<".", "c", "s", "x">>)

isCake(resource) == TestSuffixI(resource.fsPath, <<".", "c", "a", "k", "e">>)

isCs(resource) == TestSuffixI(resource.fsPath, <<".", "c", "s">>)

(***************************************************************************)
(* The editor's workspace (vscode.workspace), an external collaborator.    *)
(***************************************************************************)
DirA == <<"/", "a">>
DirAN == <<"/", "a", "/", "n">>
DirB == <<"/", "b">>
DirC == <<"/", "c">>

\* vscode.workspace.workspaceFolders: folder index i (0-based) has root
\* EditorFolders[i + 1]
EditorFolders == <<DirA, DirB>>

IsPrefix(a, b) == Len(a) <= Len(b) /\ SubSeq(b, 1, Len(a)) = a

\* p lies in the folder rooted at root
Contains(root, p) ==
    /\ IsPrefix(root, p)
    /\ (Len(p) = Len(root) \/ p[Len(root) + 1] = "/")

\* vscode.workspace.getWorkspaceFolder(resource): the set holding the index
\* of the innermost editor folder containing the resource, {} for undefined
getWorkspaceFolder(resource) ==
    LET In == {i \in DOMAIN EditorFolders : Contains(EditorFolders[i], resource.fsPath)}
    IN IF In = {} THEN {}
       ELSE {(CHOOSE i \in In : \A j \in In : Len(EditorFolders[j]) <= Len(EditorFolders[i])) - 1}

\* vscode.workspace.asRelativePath(p): with several workspace folders the
\* folder name is prepended; a path outside every folder is returned as is
asRelativePath(p) ==
    LET f == getWorkspaceFolder([fsPath |-> p])
    IN IF f = {} THEN p
       ELSE LET root == EditorFolders[(CHOOSE i \in f : TRUE) + 1]
                rel == SubSeq(p, Len(root) + 1, Len(p))
            IN IF Len(EditorFolders) > 1 THEN basename(root) \o rel
               ELSE IF rel = <<>> THEN p ELSE Tail(rel)

(***************************************************************************)
(* Launch targets.                                                         *)
(***************************************************************************)
LaunchTargetKind ==
    {"Solution", "Project", "ProjectJson", "Folder", "Csx", "Cake", "LiveShare"}

vslsTarget ==
    [label |-> <<"VSLS">>,
     description |-> <<"Visual Studio Live Share">>,
     directory |-> <<>>,
     target |-> <<>>,
     workspaceKind |-> "LiveShare"]

vsls == "vsls"

disabledSchemes == {vsls}

\* String.prototype.localeCompare on directory strings: -1, 0 or 1.  The
\* directories of the model are built from "/" and lower-case letters, which
\* the collation orders as listed, shorter prefix first.
Collation == <<"/", ".", "a", "b", "c", "n">>

Rank(c) == CHOOSE i \in DOMAIN Collation : Collation[i] = c

RECURSIVE localeCompare(_, _)
localeCompare(a, b) ==
    IF a = <<>> THEN (IF b = <<>> THEN 0 ELSE -1)
    ELSE IF b = <<>> THEN 1
    ELSE IF Rank(Head(a)) < Rank(Head(b)) THEN -1
    ELSE IF Rank(Head(a)) > Rank(Head(b)) THEN 1
    ELSE localeCompare(Tail(a), Tail(b))

\* the comparator (a, b) => a.directory.localeCompare(b.directory)
CompareDirectory(a, b) == localeCompare(a.directory, b.directory)

\* insert t into the sorted list s after every element that is not greater
RECURSIVE InsertSorted(_, _)
InsertSorted(s, t) ==
    IF s = <<>> THEN <<t>>
    ELSE IF CompareDirectory(Head(s), t) <= 0
         THEN <<Head(s)>> \o InsertSorted(Tail(s), t)
         ELSE <<t>> \o s

RECURSIVE SortFrom(_, _)
SortFrom(sorted, rest) ==
    IF rest = <<>> THEN sorted
    ELSE Let1(LAMBDA s : SortFrom(s, Tail(rest)),
              InsertSorted(sorted, Head(rest)))

\* mutant of SortByDirectory: the bucket is left in discovery order
SortByDirectory_Unsorted(list) == list

\* Array.prototype.sort with the directory comparator (a stable sort)
SortByDirectory(list) == SortFrom(<<>>, list)

(***************************************************************************)
(* resourcesToLaunchTargets: bucket the local resources by owning folder.  *)
(* The Map<number, Uri[]> is a sequence of entries in insertion order.     *)
(***************************************************************************)
MapHas(map, index) == \E k \in DOMAIN map : map[k].index = index

\* buckets = map.get(index) (or a fresh [] set into the map); buckets.push(r)
MapPush(map, index, resource) ==
    IF MapHas(map, index)
    THEN [k \in DOMAIN map |->
            IF map[k].index = index
            THEN [map[k] EXCEPT !.resources = Append(@, resource)]
            ELSE map[k]]
    ELSE Append(map, [index |-> index, resources |-> <<resource>>])

RECURSIVE BucketByFolder(_, _)
BucketByFolder(localResources, map) ==
    IF localResources = <<>> THEN map
    ELSE LET resource == Head(localResources)
             folder == getWorkspaceFolder(resource)
         IN IF folder = {}
            THEN BucketByFolder(Tail(localResources), map)
            ELSE Let1(LAMBDA m : BucketByFolder(Tail(localResources), m),
                      MapPush(map, CHOOSE i \in folder : TRUE, resource))

(***************************************************************************)
(* resourcesAndFolderMapToLaunchTargets.  The five target lists are        *)
(* declared once, before the loop over the folders; the four has* flags    *)
(* are declared per folder.                                                *)
(***************************************************************************)
NoTargets ==
    [solutionTargets |-> <<>>, projectJsonTargets |-> <<>>,
     projectRootTargets |-> <<>>, projectTargets |-> <<>>,
     otherTargets |-> <<>>, threw |-> FALSE,
     hasProjectJsonAtRoot |-> FALSE, hasCSX |-> FALSE,
     hasCake |-> FALSE, hasCs |-> FALSE]

\* mutant of ScanResource: a csproj yields the file itself as its target
ScanResource_ProjectFile(b, resource, folderPath) ==
    LET dir == dirname(resource.fsPath)
    IN IF isSolution(resource)
       THEN [b EXCEPT !.solutionTargets = Append(@,
                [label |-> basename(resource.fsPath),
                 description |-> asRelativePath(dir),
                 target |-> resource.fsPath,
                 directory |-> dirname(resource.fsPath),
                 workspaceKind |-> "Solution"])]
       ELSE IF isProjectJson(resource)
       THEN [b EXCEPT !.hasProjectJsonAtRoot = @ \/ dir = folderPath,
                      !.projectJsonTargets = Append(@,
                [label |-> basename(resource.fsPath),
                 description |-> asRelativePath(dir),
                 target |-> dir,
                 directory |-> dir,
                 workspaceKind |-> "ProjectJson"])]
       ELSE IF isCSharpProject(resource)
       THEN [b EXCEPT !.projectTargets = Append(@,
                [label |-> basename(resource.fsPath),
                 description |-> asRelativePath(dir),
                 target |-> resource.fsPath,
                 directory |-> dir,
                 workspaceKind |-> "Project"])]
       ELSE [b EXCEPT !.hasCSX = @ \/ isCsx(resource),
                      !.hasCake = @ \/ isCake(resource),
                      !.hasCs = @ \/ isCs(resource)]

\* the body of resources.forEach(resource => ...) of one folder
ScanResource(b, resource, folderPath) ==
    LET dir == dirname(resource.fsPath)
    IN IF isSolution(resource)
       THEN [b EXCEPT !.solutionTargets = Append(@,
                [label |-> basename(resource.fsPath),
                 description |-> asRelativePath(dir),
                 target |-> resource.fsPath,
                 directory |-> dirname(resource.fsPath),
                 workspaceKind |-> "Solution"])]
       ELSE IF isProjectJson(resource)
       THEN [b EXCEPT !.hasProjectJsonAtRoot = @ \/ dir = folderPath,
                      !.projectJsonTargets = Append(@,
                [label |-> basename(resource.fsPath),
                 description |-> asRelativePath(dir),
                 target |-> dir,
                 directory |-> dir,
                 workspaceKind |-> "ProjectJson"])]
       ELSE IF isCSharpProject(resource)
       THEN [b EXCEPT !.projectTargets = Append(@,
                [label |-> basename(resource.fsPath),
                 description |-> asRelativePath(dir),
                 target |-> dir,
                 directory |-> dir,
                 workspaceKind |-> "Project"])]
       ELSE [b EXCEPT !.hasCSX = @ \/ isCsx(resource),
                      !.hasCake = @ \/ isCake(resource),
                      !.hasCs = @ \/ isCs(resource)]

RECURSIVE ScanResources(_, _, _)
ScanResources(b, folderResources, folderPath) ==
    IF folderResources = <<>> THEN b
    ELSE Let1(LAMBDA nb : ScanResources(nb, Tail(folderResources), folderPath),
              ScanResource(b, Head(folderResources), folderPath))

\* a synthetic target pointing at the folder root
FolderTarget(label, description, folderPath, kind) ==
    [label |-> label, description |-> description, target |-> folderPath,
     directory |-> folderPath, workspaceKind |-> kind]

AllContainedProjects == <<"All contained projects">>

PushIf(cond, list, t) == IF cond THEN Append(list, t) ELSE list

\* mutant of AddFolderTargets: the project.json rule does not look at
\* hasProjectJsonAtRoot
AddFolderTargets_AnyProjectJson(b, folderPath) ==
    LET hasCsProjFiles == Len(b.projectTargets) > 0
        hasSlnFile == Len(b.solutionTargets) > 0
        hasProjectJson == Len(b.projectJsonTargets) > 0
        other1 == PushIf(b.hasCSX, b.otherTargets,
                    FolderTarget(<<"CSX">>, basename(folderPath), folderPath, "Csx"))
        other2 == PushIf(b.hasCake, other1,
                    FolderTarget(<<"Cake">>, basename(folderPath), folderPath, "Cake"))
        other3 == PushIf(b.hasCs /\ ~hasSlnFile /\ ~hasCsProjFiles
                            /\ ~hasProjectJson /\ ~b.hasProjectJsonAtRoot,
                    other2,
                    FolderTarget(basename(folderPath), <<>>, folderPath, "Folder"))
    IN [b EXCEPT
          !.projectRootTargets =
              PushIf((hasCsProjFiles /\ ~hasSlnFile) \/ hasProjectJson,
                     @,
                     FolderTarget(basename(folderPath), AllContainedProjects,
                                  folderPath, "Folder")),
          !.otherTargets = other3]

\* the part of the body of workspaceFolderToUriMap.forEach(...) that follows
\* the scan of the folder's resources; b holds the five lists (shared by all
\* folders) and the flags of this folder
AddFolderTargets(b, folderPath) ==
    LET hasCsProjFiles == Len(b.projectTargets) > 0
        hasSlnFile == Len(b.solutionTargets) > 0
        hasProjectJson == Len(b.projectJsonTargets) > 0
        other1 == PushIf(b.hasCSX, b.otherTargets,
                    FolderTarget(<<"CSX">>, basename(folderPath), folderPath, "Csx"))
        other2 == PushIf(b.hasCake, other1,
                    FolderTarget(<<"Cake">>, basename(folderPath), folderPath, "Cake"))
        other3 == PushIf(b.hasCs /\ ~hasSlnFile /\ ~hasCsProjFiles
                            /\ ~hasProjectJson /\ ~b.hasProjectJsonAtRoot,
                    other2,
                    FolderTarget(basename(folderPath), <<>>, folderPath, "Folder"))
    IN [b EXCEPT
          !.projectRootTargets =
              PushIf((hasCsProjFiles /\ ~hasSlnFile)
                        \/ (hasProjectJson /\ ~b.hasProjectJsonAtRoot),
                     @,
                     FolderTarget(basename(folderPath), AllContainedProjects,
                                  folderPath, "Folder")),
          !.otherTargets = other3]

\* mutant of ProcessFolder: the has* flags are not declared anew per folder
ProcessFolder_FlagsShared(b0, entry, wsFolders) ==
    IF entry.index + 1 \notin DOMAIN wsFolders
    THEN [b0 EXCEPT !.threw = TRUE]
    ELSE Let1(LAMBDA b : AddFolderTargets(b, wsFolders[entry.index + 1]),
              ScanResources(b0, entry.resources, wsFolders[entry.index + 1]))

\* the body of workspaceFolderToUriMap.forEach((resources, folderIndex) => ...)
\* for one entry; workspaceFolders[folderIndex] is undefined for an index
\* outside the list and reading folder.uri then throws a TypeError
ProcessFolder(b0, entry, wsFolders) ==
    IF entry.index + 1 \notin DOMAIN wsFolders
    THEN [b0 EXCEPT !.threw = TRUE]
    ELSE Let1(LAMBDA b : AddFolderTargets(b, wsFolders[entry.index + 1]),
              ScanResources(
                [b0 EXCEPT !.hasProjectJsonAtRoot = FALSE, !.hasCSX = FALSE,
                           !.hasCake = FALSE, !.hasCs = FALSE],
                entry.resources, wsFolders[entry.index + 1]))

RECURSIVE ForEachFolder(_, _, _)
ForEachFolder(b, map, wsFolders) ==
    IF map = <<>> \/ b.threw THEN b
    ELSE Let1(LAMBDA nb : ForEachFolder(nb, Tail(map), wsFolders),
              ProcessFolder(b, Head(map), wsFolders))

\* mutant of ConcatTargets: the solutions are put ahead of the other bucket
ConcatTargets_SolutionsFirst(other, solution, projectRoot, projectJson, project) ==
    solution \o other \o projectRoot \o projectJson \o project

\* otherTargets.concat(solutionTargets).concat(projectRootTargets)
\*     .concat(projectJsonTargets).concat(projectTargets)
ConcatTargets(other, solution, projectRoot, projectJson, project) ==
    other \o solution \o projectRoot \o projectJson \o project

\* mutant of Truncate: zero is taken for a limit as well
Truncate_ZeroLimits(allTargets, maxResults) ==
    IF maxResults >= 0 THEN Slice0(allTargets, maxResults) ELSE allTargets

\* maxProjectResults > 0 ? allTargets.slice(0, maxProjectResults) : allTargets
Truncate(allTargets, maxResults) ==
    IF maxResults > 0 THEN Slice0(allTargets, maxResults) ELSE allTargets

\* the outcome of a call: it returns a list or throws
Returned(list) == [threw |-> FALSE, list |-> list]
Threw == [threw |-> TRUE, list |-> <<>>]

\* mutant of SortConcatTruncate: the other bucket is sorted as well
SortConcatTruncate_OtherSorted(b, maxResults) ==
    IF b.threw THEN Threw
    ELSE Returned(Truncate(
            ConcatTargets(SortByDirectory(b.otherTargets),
                          SortByDirectory(b.solutionTargets),
                          SortByDirectory(b.projectRootTargets),
                          SortByDirectory(b.projectJsonTargets),
                          SortByDirectory(b.projectTargets)),
            maxResults))

\* the statements after the loop: sort four lists, concatenate, truncate
SortConcatTruncate(b, maxResults) ==
    IF b.threw THEN Threw
    ELSE Returned(Truncate(
            ConcatTargets(b.otherTargets,
                          SortByDirectory(b.solutionTargets),
                          SortByDirectory(b.projectRootTargets),
                          SortByDirectory(b.projectJsonTargets),
                          SortByDirectory(b.projectTargets)),
            maxResults))

resourcesAndFolderMapToLaunchTargets(res, wsFolders, workspaceFolderToUriMap, maxResults) ==
    Let1(LAMBDA b : SortConcatTruncate(b, maxResults),
         ForEachFolder(NoTargets, workspaceFolderToUriMap, wsFolders))

\* mutant of NoResources: the early return for the empty list is missing
NoResources_Never(res) == FALSE

\* resources.length === 0
NoResources(res) == Len(res) = 0

\* resources.filter(resource => !disabledSchemes.has(resource.scheme))
LocalResources(res) == SelectSeq(res, LAMBDA r : r.scheme \notin disabledSchemes)

resourcesToLaunchTargets(res, wsFolders, maxResults) ==
    IF NoResources(res) THEN Returned(<<>>)
    ELSE Let1(LAMBDA localResources :
                IF Len(localResources) = 0 THEN Returned(<<vslsTarget>>)
                ELSE Let1(LAMBDA map : resourcesAndFolderMapToLaunchTargets(
                                          res, wsFolders, map, maxResults),
                          BucketByFolder(localResources, <<>>)),
              LocalResources(res))

(***************************************************************************)
(* Inputs of the classifier.                                               *)
(***************************************************************************)
File(dir, name) == [scheme |-> "file", fsPath |-> dir \o <<"/">> \o name]

Shared(dir, name) == [scheme |-> vsls, fsPath |-> dir \o <<"/">> \o name]

XSln == <<"x", ".", "s", "l", "n">>
XSlnfUpper == <<"X", ".", "S", "L", "N", "F">>
XCsproj == <<"x", ".", "c", "s", "p", "r", "o", "j">>
ProjectJsonName == <<"p", "r", "o", "j", "e", "c", "t", ".", "j", "s", "o", "n">>
XCsx == <<"x", ".", "c", "s", "x">>
XCake == <<"x", ".", "c", "a", "k", "e">>
XCs == <<"x", ".", "c", "s">>
XMd == <<"x", ".", "m", "d">>

\* the resources the file search may report: files of folder 0 (/a, with the
\* nested directory /a/n), of folder 1 (/b), one outside every folder (/c)
\* and one of a live-share session
ResourceUniverse ==
    {File(DirA, XSln), File(DirAN, XCsproj),
     File(DirA, ProjectJsonName), File(DirAN, ProjectJsonName),
     File(DirA, XCsx), File(DirA, XCake), File(DirA, XCs), File(DirA, XMd),
     File(DirB, XSlnfUpper), File(DirB, XCsproj), File(DirB, XCs),
     File(DirC, XCsproj), Shared(DirA, XCs)}

\* the workspaceFolders argument: the editor's folders, or a list that lacks
\* the second folder
FolderLists == {EditorFolders, <<DirA>>}

Limits == -1 .. MaxLimit

(***************************************************************************)
(* The classifier as a state machine: one call of resourcesToLaunchTargets *)
(***************************************************************************)
ClassifierIdle ==
    /\ resources = <<>>
    /\ workspaceFolders = <<>>
    /\ maxProjectResults = 0
    /\ cpc = "input"
    /\ targets = <<>>

EscapeIdle ==
    /\ arg = <<>>
    /\ escaped = <<>>
    /\ epc = "input"

Pending == [state |-> "pending", value |-> <<>>]

NoOptions ==
    [useModernNet |-> FALSE, waitForDebugger |-> FALSE,
     useEditorFormattingSettings |-> FALSE]

NoConfig == [csharp |-> <<>>, global |-> <<>>]

\* no call of launchOmniSharp has been made
NoCall ==
    /\ lpc = "idle"
    /\ launches = 0
    /\ argsAtCall = <<>>
    /\ options = NoOptions
    /\ isWindows = FALSE
    /\ launchPath = <<>>
    /\ editorConfig = NoConfig
    /\ spawnInJob = FALSE
    /\ strategies = <<>>
    /\ consulted = {}
    /\ spawned = <<>>
    /\ result = <<>>
    /\ promise = Pending
    /\ listeners = {}
    /\ tick = FALSE
    /\ emitted = <<>>

LauncherIdle == NoCall /\ callerArgs = <<>>

InitClassify ==
    /\ resources \in SeqsUpTo(ResourceUniverse, MaxResources)
    /\ workspaceFolders \in FolderLists
    /\ maxProjectResults = 0
    /\ cpc = "input"
    /\ targets = <<>>
    /\ EscapeIdle
    /\ LauncherIdle

Classify(limit) ==
    /\ cpc = "input"
    /\ \E r \in {resourcesToLaunchTargets(resources, workspaceFolders, limit)} :
          /\ cpc' = IF r.threw THEN "threw" ELSE "returned"
          /\ targets' = r.list
    /\ maxProjectResults' = limit
    /\ UNCHANGED <<resources, workspaceFolders, evars, lvars>>

NextClassify == \E limit \in Limits : Classify(limit)

SpecClassify == InitClassify /\ [][NextClassify]_vars

(***************************************************************************)
(* launchWindows.escapeIfNeeded                                            *)
(***************************************************************************)
Space == " "
Quote == "\""
Amp == "&"
Caret == "^"

\* /^[^"].* .*[^"]/.test(arg): the first character is not a quote, a space
\* follows it somewhere, and some character after that space is not a quote
\* (the pattern is not anchored at the end)
hasSpaceWithoutQuotes(a) ==
    /\ Len(a) >= 1
    /\ a[1] # Quote
    /\ \E i \in 2 .. Len(a) :
          /\ a[i] = Space
          /\ \E j \in (i + 1) .. Len(a) : a[j] # Quote

\* arg.replace("&", "^&"): a string pattern replaces the first occurrence only
replaceAmp(a) ==
    LET S == {i \in DOMAIN a : a[i] = Amp}
    IN IF S = {} THEN a
       ELSE LET first == CHOOSE i \in S : \A j \in S : i <= j
            IN SubSeq(a, 1, first - 1) \o <<Caret, Amp>> \o SubSeq(a, first + 1, Len(a))

escapeIfNeeded(a) ==
    IF hasSpaceWithoutQuotes(a)
    THEN <<Quote>> \o a \o <<Quote>>
    ELSE replaceAmp(a)

\* the characters an argument is made of: an ordinary one and the four the
\* escaping looks at or produces
ArgChars == {"a", Space, Quote, Amp}

InitEscape ==
    /\ arg \in SeqsUpTo(ArgChars, MaxArgLen)
    /\ escaped = <<>>
    /\ epc = "input"
    /\ ClassifierIdle
    /\ LauncherIdle

Escape ==
    /\ epc = "input"
    /\ escaped' = escapeIfNeeded(arg)
    /\ epc' = "done"
    /\ UNCHANGED <<arg, cvars, lvars>>

NextEscape == Escape

SpecEscape == InitEscape /\ [][NextEscape]_vars

(***************************************************************************)
(* The launcher: launchOmniSharp, launch and the three strategies.         *)
(***************************************************************************)
BoolString(b) == IF b THEN <<"true">> ELSE <<"false">>

\* a configuration object holds, per key, <<>> (undefined) or <<value>>
Undefined == <<>>

\* getConfigurationValue(globalConfig, csharpConfig, configurationPath, defaultValue)
getConfigurationValue(globalConfig, csharpConfig, configurationPath, defaultValue) ==
    IF csharpConfig[configurationPath] # Undefined
    THEN csharpConfig[configurationPath][1]
    ELSE IF globalConfig[configurationPath] # Undefined
         THEN globalConfig[configurationPath][1]
         ELSE defaultValue

\* mutant of FormattingArgs: the tab size is pushed ahead of useTabs
FormattingArgs_TabSizeFirst(cfg) ==
    << <<"formattingOptions:tabSize=",
          ToString(getConfigurationValue(cfg.global, cfg.csharp, "editor.tabSize", 4))>>,
       <<"formattingOptions:useTabs=">>
          \o BoolString(~getConfigurationValue(cfg.global, cfg.csharp, "editor.insertSpaces", TRUE)),
       <<"formattingOptions:indentationSize=",
          ToString(getConfigurationValue(cfg.global, cfg.csharp, "editor.tabSize", 4))>> >>

\* the three arguments launch pushes when useEditorFormattingSettings is set
FormattingArgs(cfg) ==
    << <<"formattingOptions:useTabs=">>
          \o BoolString(~getConfigurationValue(cfg.global, cfg.csharp, "editor.insertSpaces", TRUE)),
       <<"formattingOptions:tabSize=",
          ToString(getConfigurationValue(cfg.global, cfg.csharp, "editor.tabSize", 4))>>,
       <<"formattingOptions:indentationSize=",
          ToString(getConfigurationValue(cfg.global, cfg.csharp, "editor.tabSize", 4))>> >>

\* mutant of SelectStrategy: the platform is tested before useModernNet
SelectStrategy_PlatformFirst(opts, windows) ==
    IF windows THEN "windows"
    ELSE IF opts.useModernNet THEN "dotnet"
    ELSE "mono"

\* the dispatch of launch: the first matching strategy
SelectStrategy(opts, windows) ==
    IF opts.useModernNet THEN "dotnet"
    ELSE IF windows THEN "windows"
    ELSE "mono"

\* the resolver whose getHostExecutableInfo the strategy calls
ResolverOf(strategy) ==
    CASE strategy = "dotnet" -> {"dotnetResolver"}
      [] strategy = "mono" -> {"monoResolver"}
      [] OTHER -> {}

\* what the resolvers resolve with
HostInfo(resolver) ==
    IF resolver = "dotnetResolver"
    THEN [path |-> "/usr/share/dotnet/dotnet", version |-> "6.0.100", env |-> "dotnetEnv"]
    ELSE [path |-> "/usr/bin/mono", version |-> "6.12.0", env |-> "monoEnv"]

\* launchPath.endsWith('.dll')
EndsWithDll(path) == Len(path) >= 1 /\ path[Len(path)] = ".dll"

\* Array.prototype.join(' ') of a list of strings
RECURSIVE JoinSpace(_)
JoinSpace(list) ==
    IF list = <<>> THEN <<>>
    ELSE IF Len(list) = 1 THEN list[1]
    ELSE list[1] \o <<Space>> \o JoinSpace(Tail(list))

MapEscape(list) == [i \in DOMAIN list |-> escapeIfNeeded(list[i])]

\* mutant of launchDotnet: the host executable is used for every launchPath
launchDotnet_AlwaysHost(path, args, windows, env) ==
    [command |-> IF windows THEN <<"dotnet", ".exe">> ELSE <<"dotnet">>,
     args |-> <<path>> \o args, env |-> env, verbatim |-> FALSE]

\* the spawn call of launchDotnet
launchDotnet(path, args, windows, env) ==
    IF ~EndsWithDll(path)
    THEN [command |-> path, args |-> args, env |-> env, verbatim |-> FALSE]
    ELSE [command |-> IF windows THEN <<"dotnet", ".exe">> ELSE <<"dotnet">>,
          args |-> <<path>> \o args, env |-> env, verbatim |-> FALSE]

\* the spawn call of launchWindows
launchWindows(path, args) ==
    [command |-> <<"cmd">>,
     args |-> << <<"/s", Space, "/c", Space, Quote>>
                   \o JoinSpace(MapEscape(<< <<Quote>> \o path \o <<Quote>> >> \o args))
                   \o <<Quote>> >>,
     env |-> "inherited",
     verbatim |-> TRUE]

DebugFlag == <<"--debug">>
DebuggerAgentFlag ==
    <<"--debugger-agent=transport=dt_socket,server=y,address=127", ".", "0", ".", "0", ".", "1:55555">>
AssemblyLoaderFlag == <<"--assembly-loader=strict">>

\* mutant of launchNixMono: the debugger flags are put behind the loader flag
launchNixMono_FlagsAfterLoader(path, args, env, useDebugger) ==
    [command |-> <<"mono">>,
     args |-> <<AssemblyLoaderFlag>>
                \o (IF useDebugger THEN <<DebuggerAgentFlag, DebugFlag>> ELSE <<>>)
                \o <<path>> \o args,
     env |-> env,
     verbatim |-> FALSE]

\* the spawn call of launchNixMono: each unshift puts its argument in front
launchNixMono(path, args, env, useDebugger) ==
    LET argsCopy1 == <<AssemblyLoaderFlag>> \o (<<path>> \o args)
        argsCopy2 == IF useDebugger
                     THEN <<DebuggerAgentFlag>> \o (<<DebugFlag>> \o argsCopy1)
                     ELSE argsCopy1
    IN [command |-> <<"mono">>, args |-> argsCopy2, env |-> env, verbatim |-> FALSE]

\* mutant of ResultOf: every result carries host metadata, and hostIsMono
\* is set whenever the managed runtime is not used
ResultOf_HostAlways(strategy, path, info) ==
    [command |-> path, hostIsMono |-> (strategy # "dotnet"),
     hostVersion |-> <<"6.12.0">>, hostPath |-> <<"/usr/bin/mono">>]

\* the IntermediateLaunchResult (without the process handle) of a strategy
ResultOf(strategy, path, info) ==
    IF strategy = "windows"
    THEN [command |-> path, hostIsMono |-> FALSE,
          hostVersion |-> Undefined, hostPath |-> Undefined]
    ELSE [command |-> path, hostIsMono |-> (strategy = "mono"),
          hostVersion |-> <<info.version>>, hostPath |-> <<info.path>>]

\* resolve(value) / reject(value) of a promise: only the first one counts
Settle(p, state, value) ==
    IF p.state = "pending" THEN [state |-> state, value |-> value] ELSE p

(***************************************************************************)
(* Inputs of the launcher.                                                 *)
(***************************************************************************)
OptionSets ==
    [useModernNet : BOOLEAN, waitForDebugger : BOOLEAN,
     useEditorFormattingSettings : BOOLEAN]

\* an assembly in a directory whose name holds '&', and an executable
LaunchPaths == {<<"/o/R", Amp, "D/OmniSharp", ".dll">>, <<"/o/run">>}

ArgLists == {<<>>, << <<"-s">> >>, << <<"-s">>, <<"/w", Space, "dir&x">> >>}

Config(insertSpaces, tabSize) ==
    ("editor.insertSpaces" :> insertSpaces) @@ ("editor.tabSize" :> tabSize)

\* nothing configured; global values only; a [csharp] override of the tab size
EditorConfigs ==
    {[csharp |-> Config(Undefined, Undefined), global |-> Config(Undefined, Undefined)],
     [csharp |-> Config(Undefined, Undefined), global |-> Config(<<FALSE>>, <<2>>)],
     [csharp |-> Config(Undefined, <<8>>), global |-> Config(<<TRUE>>, <<2>>)]}

(***************************************************************************)
(* The launcher as a state machine.  launchOmniSharp runs up to the first  *)
(* await of the selected strategy; the strategy goes on when its resolver  *)
(* settles; the listeners are attached by the then-callback, a promise     *)
(* job; the process emits its first lifecycle event from process.nextTick. *)
(* The tick queue is run ahead of the promise jobs, except when the code   *)
(* that called spawn was itself a promise job (the continuation of an      *)
(* await always is one).                                                   *)
(***************************************************************************)
InitLaunch ==
    /\ NoCall
    /\ callerArgs \in ArgLists
    /\ ClassifierIdle
    /\ EscapeIdle

\* spawn(command, argsCopy, ...) and what follows it in launch and in
\* launchOmniSharp up to the end of the running job: the call returns a
\* handle (launch fulfils, the then-callback is queued) or throws (launch
\* rejects and the catch-callback rejects the promise)
IssueSpawn(call, meta, returnsHandle, inJob) ==
    /\ spawned' = Append(spawned, call)
    /\ spawnInJob' = inJob
    /\ IF returnsHandle
       THEN /\ result' = <<meta>>
            /\ tick' = TRUE
            /\ lpc' = "thenQueued"
            /\ promise' = promise
       ELSE /\ result' = result
            /\ tick' = tick
            /\ lpc' = "rejected"
            /\ promise' = Settle(promise, "rejected", <<"spawn threw">>)

\* launchOmniSharp(cwd, args, launchPath, platformInfo, options, monoResolver,
\* dotnetResolver), called with the caller's array, up to the first await; the
\* caller launches again only after the promise of its last call has settled
LaunchOmniSharp(opts, windows, path, cfg, callerInJob, returnsHandle) ==
    /\ lpc = "idle" \/ promise.state # "pending"
    /\ launches < MaxLaunches
    /\ launches' = launches + 1
    /\ options' = opts
    /\ isWindows' = windows
    /\ launchPath' = path
    /\ editorConfig' = cfg
    /\ argsAtCall' = callerArgs
    /\ callerArgs' = IF opts.useEditorFormattingSettings
                     THEN callerArgs \o FormattingArgs(cfg)
                     ELSE callerArgs
    /\ strategies' = <<SelectStrategy(opts, windows)>>
    /\ consulted' = ResolverOf(SelectStrategy(opts, windows))
    /\ listeners' = {}
    /\ emitted' = <<>>
    /\ IF SelectStrategy(opts, windows) = "windows"
       THEN /\ spawned' = <<launchWindows(path, callerArgs')>>
            /\ spawnInJob' = callerInJob
            /\ IF returnsHandle
               THEN /\ result' = <<ResultOf("windows", path, Undefined)>>
                    /\ tick' = TRUE
                    /\ lpc' = "thenQueued"
                    /\ promise' = Pending
               ELSE /\ result' = <<>>
                    /\ tick' = FALSE
                    /\ lpc' = "rejected"
                    /\ promise' = Settle(Pending, "rejected", <<"spawn threw">>)
       ELSE /\ spawned' = <<>>
            /\ spawnInJob' = TRUE
            /\ result' = <<>>
            /\ tick' = FALSE
            /\ lpc' = "awaiting"
            /\ promise' = Pending
    /\ UNCHANGED <<cvars, evars>>

\* mutant of ResolverResolves: the process is spawned with the arguments and
\* the environment as they were before launch and the resolver had run
ResolverResolves_EarlySpawn(returnsHandle) ==
    /\ lpc = "awaiting"
    /\ LET strategy == strategies[1]
           info == HostInfo(CHOOSE r \in consulted : TRUE)
       IN IssueSpawn(
            IF strategy = "dotnet"
            THEN launchDotnet(launchPath, argsAtCall, isWindows, "inherited")
            ELSE launchNixMono(launchPath, argsAtCall, "inherited", options.waitForDebugger),
            ResultOf(strategy, launchPath, info), returnsHandle, TRUE)
    /\ UNCHANGED <<launches, callerArgs, argsAtCall, options, isWindows, launchPath,
                   editorConfig, strategies, consulted, listeners, emitted>>
    /\ UNCHANGED <<cvars, evars>>

\* the awaited getHostExecutableInfo fulfils: launchDotnet / launchNix go on
ResolverResolves(returnsHandle) ==
    /\ lpc = "awaiting"
    /\ LET strategy == strategies[1]
           info == HostInfo(CHOOSE r \in consulted : TRUE)
       IN IssueSpawn(
            IF strategy = "dotnet"
            THEN launchDotnet(launchPath, callerArgs, isWindows, info.env)
            ELSE launchNixMono(launchPath, callerArgs, info.env, options.waitForDebugger),
            ResultOf(strategy, launchPath, info), returnsHandle, TRUE)
    /\ UNCHANGED <<launches, callerArgs, argsAtCall, options, isWindows, launchPath,
                   editorConfig, strategies, consulted, listeners, emitted>>
    /\ UNCHANGED <<cvars, evars>>

\* mutant of ResolverRejects: the rejection of launch is not passed on
ResolverRejects_Swallowed ==
    /\ lpc = "awaiting"
    /\ lpc' = "rejected"
    /\ promise' = promise
    /\ UNCHANGED <<launches, callerArgs, argsAtCall, options, isWindows, launchPath,
                   editorConfig, spawnInJob, strategies, consulted, spawned, result,
                   listeners, tick, emitted>>
    /\ UNCHANGED <<cvars, evars>>

\* the awaited getHostExecutableInfo rejects: launch rejects, and
\* .catch(reason => reject(reason)) rejects the promise
ResolverRejects ==
    /\ lpc = "awaiting"
    /\ lpc' = "rejected"
    /\ promise' = Settle(promise, "rejected", <<"resolver failed">>)
    /\ UNCHANGED <<launches, callerArgs, argsAtCall, options, isWindows, launchPath,
                   editorConfig, spawnInJob, strategies, consulted, spawned, result,
                   listeners, tick, emitted>>
    /\ UNCHANGED <<cvars, evars>>

\* the then-callback: result.process.on('error', ...); result.process.on('spawn', ...)
AttachListeners ==
    /\ lpc = "thenQueued"
    /\ spawnInJob \/ ~tick
    /\ lpc' = "listening"
    /\ listeners' = {"error", "spawn"}
    /\ UNCHANGED <<launches, callerArgs, argsAtCall, options, isWindows, launchPath,
                   editorConfig, spawnInJob, strategies, consulted, spawned, result,
                   promise, tick, emitted>>
    /\ UNCHANGED <<cvars, evars>>

\* the process emits event: a registered listener runs, err => reject(err)
\* or () => resolve(result)
Emit(event) ==
    /\ emitted' = Append(emitted, event)
    /\ promise' = IF event \notin listeners THEN promise
                  ELSE IF event = "spawn"
                       THEN Settle(promise, "resolved", result)
                       ELSE Settle(promise, "rejected", <<"error event">>)

\* the queued tick runs: the process emits its first lifecycle event
EmitFirst(event) ==
    /\ tick
    /\ lpc = "listening" \/ (lpc = "thenQueued" /\ ~spawnInJob)
    /\ tick' = FALSE
    /\ Emit(event)
    /\ UNCHANGED <<lpc, launches, callerArgs, argsAtCall, options, isWindows,
                   launchPath, editorConfig, spawnInJob, strategies, consulted,
                   spawned, result, listeners>>
    /\ UNCHANGED <<cvars, evars>>

\* a later failure of the process: it emits 'error' again or after 'spawn'
EmitLater ==
    /\ lpc = "listening"
    /\ ~tick
    /\ emitted # <<>>
    /\ Len(emitted) < MaxEvents
    /\ Emit("error")
    /\ UNCHANGED <<lpc, launches, callerArgs, argsAtCall, options, isWindows,
                   launchPath, editorConfig, spawnInJob, strategies, consulted,
                   spawned, result, listeners, tick>>
    /\ UNCHANGED <<cvars, evars>>

NextLaunch ==
    \/ \E opts \in OptionSets, windows \in BOOLEAN, path \in LaunchPaths,
          cfg \in EditorConfigs, callerInJob \in BOOLEAN, returnsHandle \in BOOLEAN :
            LaunchOmniSharp(opts, windows, path, cfg, callerInJob, returnsHandle)
    \/ \E returnsHandle \in BOOLEAN : ResolverResolves(returnsHandle)
    \/ ResolverRejects
    \/ AttachListeners
    \/ \E event \in {"spawn", "error"} : EmitFirst(event)
    \/ EmitLater

Spec == InitLaunch /\ [][NextLaunch]_vars

(***************************************************************************)
(* Properties of the classifier.                                           *)
(***************************************************************************)
IsRootTarget(t) ==
    t.workspaceKind = "Folder" /\ t.description = AllContainedProjects

IsLooseSourceTarget(t) ==
    t.workspaceKind = "Folder" /\ t.description = <<>>

\* position of a target's bucket in the documented concatenation order
BucketOf(t) ==
    CASE t.workspaceKind = "Solution" -> 2
      [] IsRootTarget(t) -> 3
      [] t.workspaceKind = "ProjectJson" -> 4
      [] t.workspaceKind = "Project" -> 5
      [] OTHER -> 1

\* indexes (0-based) of the folders that own a local resource of the call
OwningFolders ==
    UNION {getWorkspaceFolder(resources[k]) :
             k \in {j \in DOMAIN resources : resources[j].scheme \notin disabledSchemes}}

\* the local resources of the call owned by folder i
OwnedBy(i) ==
    {resources[k] : k \in {j \in DOMAIN resources :
        /\ resources[j].scheme \notin disabledSchemes
        /\ getWorkspaceFolder(resources[j]) = {i}}}

\* the root-folder rule of the documentation, on the resources of folder i alone
RootFolderRule(i) ==
    LET own == OwnedBy(i)
        root == workspaceFolders[i + 1]
    IN \/ /\ \E r \in own : isCSharpProject(r)
          /\ ~ \E r \in own : isSolution(r)
       \/ /\ \E r \in own : isProjectJson(r)
          /\ ~ \E r \in own : isProjectJson(r) /\ dirname(r.fsPath) = root

HasRootTarget(i) ==
    \E k \in DOMAIN targets :
        IsRootTarget(targets[k]) /\ targets[k].directory = workspaceFolders[i + 1]

\* C2: for every folder owning a local resource, the synthetic 'All contained
\* projects' Folder target of that folder is emitted if and only if the
\* root-folder rule holds of that folder's own resources (stated for calls
\* that return the untruncated list).
C2_RootFolderPerFolder ==
    (cpc = "returned" /\ maxProjectResults <= 0) =>
        \A i \in OwningFolders : HasRootTarget(i) <=> RootFolderRule(i)

\* C4: in every returned list no target of a later bucket precedes a target
\* of an earlier bucket (other, Solution, synthetic Folder, ProjectJson,
\* Project).
C4_BucketOrder ==
    cpc = "returned" =>
        \A i, j \in DOMAIN targets :
            i < j => BucketOf(targets[i]) <= BucketOf(targets[j])

\* a returned list holding targets of at least four different buckets
C4_Witness ==
    /\ cpc = "returned"
    /\ Cardinality({BucketOf(targets[k]) : k \in DOMAIN targets}) >= 4

\* C5: in every returned list the Solution, synthetic Folder, ProjectJson and
\* Project targets are each in ascending order of directory (localeCompare).
C5_BucketsSorted ==
    cpc = "returned" =>
        \A i, j \in DOMAIN targets :
            (i < j /\ BucketOf(targets[i]) = BucketOf(targets[j])
                   /\ BucketOf(targets[i]) > 1)
            => CompareDirectory(targets[i], targets[j]) <= 0

\* two solutions of different folders, the one with the greater directory
\* discovered first, returned in ascending directory order
C5_Witness ==
    /\ cpc = "returned"
    /\ Len(resources) = 2
    /\ resources[1] = File(DirB, XSlnfUpper)
    /\ resources[2] = File(DirA, XSln)
    /\ Len(targets) = 2
    /\ targets[1].directory = DirA
    /\ targets[2].directory = DirB

\* C6: a positive maxProjectResults n yields the first min(n, L) entries of
\* the unlimited list, in the same order; zero or a negative n yields the
\* whole list.
C6_Truncation ==
    cpc = "returned" =>
        LET full == resourcesToLaunchTargets(resources, workspaceFolders, -1).list
        IN IF maxProjectResults > 0
           THEN /\ Len(targets) = Min(maxProjectResults, Len(full))
                /\ \A k \in DOMAIN targets : targets[k] = full[k]
           ELSE targets = full

\* a list of more targets than the limit, cut to the limit
C6_Witness ==
    /\ cpc = "returned"
    /\ maxProjectResults = 2
    /\ Len(targets) = 2
    /\ Len(resourcesToLaunchTargets(resources, workspaceFolders, 0).list) >= 4

\* C7: the call returns exactly the list holding the live-share sentinel if
\* and only if the resource list is non-empty and every resource has a
\* disabled scheme, whatever the folders and the limit; the empty resource
\* list yields the empty list.
C7_LiveShare ==
    cpc # "input" =>
        /\ (cpc = "returned" /\ targets = <<vslsTarget>>)
              <=> (/\ resources # <<>>
                   /\ \A k \in DOMAIN resources :
                         resources[k].scheme \in disabledSchemes)
        /\ resources = <<>> => (cpc = "returned" /\ targets = <<>>)

\* several live-share resources, a positive limit of one, a folder list
\* that lacks a folder: the sentinel alone is returned
C7_Witness ==
    /\ cpc = "returned"
    /\ Len(resources) >= 2
    /\ \A k \in DOMAIN resources : resources[k].scheme = vsls
    /\ maxProjectResults = 1
    /\ workspaceFolders = <<DirA>>
    /\ targets = <<vslsTarget>>

(***************************************************************************)
(* Properties of the Windows escaping.                                     *)
(***************************************************************************)
HasSpace(a) == \E i \in DOMAIN a : a[i] = Space

FullyQuoted(a) == Len(a) >= 2 /\ a[1] = Quote /\ a[Len(a)] = Quote

\* C9: every argument that contains a space and is not fully enclosed in
\* double quotes is returned wrapped in double quotes; a fully quoted argument
\* is returned as it is.
C9_WrapsEverySpacedArg ==
    epc = "done" =>
        /\ (HasSpace(arg) /\ ~FullyQuoted(arg)) => escaped = <<Quote>> \o arg \o <<Quote>>
        /\ FullyQuoted(arg) => escaped = arg

\* C10: in the escaped form of an argument without a space every '&' is
\* immediately preceded by '^'.
C10_EveryAmpEscaped ==
    (epc = "done" /\ ~HasSpace(arg)) =>
        \A i \in DOMAIN escaped :
            escaped[i] = Amp => (i > 1 /\ escaped[i - 1] = Caret)

(***************************************************************************)
(* Properties of the launcher.                                             *)
(***************************************************************************)
\* C1: when launch() has yielded a process handle, the first lifecycle event
\* the process emits decides the promise: once an event has been emitted the
\* promise is resolved if the first event was 'spawn' and rejected if it was
\* 'error', and it is resolved only after 'spawn' was emitted.
C1_FirstEventDecides ==
    result # <<>> =>
        /\ emitted # <<>> =>
              promise.state = (IF emitted[1] = "spawn" THEN "resolved" ELSE "rejected")
        /\ promise.state = "resolved" => \E k \in DOMAIN emitted : emitted[k] = "spawn"

\* the arguments handed to the strategy: the caller's arguments as they were
\* at the call, followed by the formatting arguments when they are enabled
StrategyArgs ==
    argsAtCall \o (IF options.useEditorFormattingSettings
                   THEN FormattingArgs(editorConfig) ELSE <<>>)

MonoSpawned == strategies = <<"mono">> /\ spawned # <<>>

\* C3 as stated: mono is spawned with '--debug', '--debugger-agent=...',
\* '--assembly-loader=strict', launchPath and the arguments, in this order,
\* when waitForDebugger is set, and without the first two when it is not.
C3_DebugBeforeAgent ==
    MonoSpawned =>
        spawned[1].args =
            (IF options.waitForDebugger THEN <<DebugFlag, DebuggerAgentFlag>> ELSE <<>>)
            \o <<AssemblyLoaderFlag, launchPath>> \o StrategyArgs

\* C3 amended: when waitForDebugger is set the vector is
\* '--debugger-agent=...', '--debug', '--assembly-loader=strict', launchPath,
\* then the arguments handed to the strategy in order; when it is not set,
\* '--assembly-loader=strict', launchPath, then those arguments.
C3_AgentBeforeDebug ==
    MonoSpawned =>
        /\ Len(spawned) = 1
        /\ spawned[1].command = <<"mono">>
        /\ spawned[1].args =
            (IF options.waitForDebugger THEN <<DebuggerAgentFlag, DebugFlag>> ELSE <<>>)
            \o <<AssemblyLoaderFlag, launchPath>> \o StrategyArgs

\* mono spawned with the debugger flags, two caller arguments and the
\* formatting arguments
C3_Witness ==
    /\ MonoSpawned
    /\ options.waitForDebugger
    /\ options.useEditorFormattingSettings
    /\ Len(argsAtCall) = 2
    /\ Len(spawned[1].args) = 9

\* C8: per call exactly one strategy runs, the first that matches: the
\* managed runtime whenever useModernNet is set (on Windows too), consulting
\* dotnetResolver only; else on Windows the cmd shell, consulting no resolver;
\* else mono, consulting monoResolver only.  The process, if any, is spawned
\* with that strategy's command.
C8_StrategySelection ==
    lpc # "idle" =>
        /\ Len(strategies) = 1
        /\ Len(spawned) <= 1
        /\ IF options.useModernNet
           THEN /\ strategies[1] = "dotnet"
                /\ consulted = {"dotnetResolver"}
                /\ \A k \in DOMAIN spawned :
                      spawned[k].command \notin {<<"cmd">>, <<"mono">>}
           ELSE IF isWindows
           THEN /\ strategies[1] = "windows"
                /\ consulted = {}
                /\ \A k \in DOMAIN spawned : spawned[k].command = <<"cmd">>
           ELSE /\ strategies[1] = "mono"
                /\ consulted = {"monoResolver"}
                /\ \A k \in DOMAIN spawned : spawned[k].command = <<"mono">>

\* the managed runtime spawned on Windows
C8_Witness ==
    /\ options.useModernNet
    /\ isWindows
    /\ strategies = <<"dotnet">>
    /\ Len(spawned) = 1
    /\ spawned[1].command = <<"dotnet", ".exe">>
    /\ result # <<>>

(***************************************************************************)
(* Properties of the classifier, per workspace folder.  They are stated    *)
(* for calls that return the whole list (no positive limit).               *)
(***************************************************************************)
\* the positions of the local resources of the call owned by folder i
OwnedIdx(i) ==
    {k \in DOMAIN resources :
        /\ resources[k].scheme \notin disabledSchemes
        /\ getWorkspaceFolder(resources[k]) = {i}}

\* the positions of the returned targets of the given kind whose directory
\* lies in folder i
TargetsIn(i, kind) ==
    {k \in DOMAIN targets :
        /\ targets[k].workspaceKind = kind
        /\ getWorkspaceFolder([fsPath |-> targets[k].directory]) = {i}}

WholeListReturned == cpc = "returned" /\ maxProjectResults <= 0

OwnSolutions(i) == {k \in OwnedIdx(i) : isSolution(resources[k])}
OwnProjectJsons(i) == {k \in OwnedIdx(i) : isProjectJson(resources[k])}
OwnCsprojs(i) == {k \in OwnedIdx(i) : isCSharpProject(resources[k])}

\* C11: a folder whose project files are solutions and csproj files only, at
\* least one of each, gets one Solution target per solution file, one Project
\* target per csproj file and no synthetic Folder target, and each of its
\* Solution targets precedes each of its Project targets.
C11_SolutionsAndProjects ==
    WholeListReturned =>
        \A i \in OwningFolders :
            (OwnSolutions(i) # {} /\ OwnCsprojs(i) # {} /\ OwnProjectJsons(i) = {}) =>
                /\ Cardinality(TargetsIn(i, "Solution")) = Cardinality(OwnSolutions(i))
                /\ Cardinality(TargetsIn(i, "Project")) = Cardinality(OwnCsprojs(i))
                /\ TargetsIn(i, "Folder") = {}
                /\ \A s \in TargetsIn(i, "Solution"), p \in TargetsIn(i, "Project") : s < p

\* C12: a folder whose only project files are csproj files gets one Project
\* target per csproj, with directory and target the csproj's directory, and
\* exactly one synthetic Folder target, that of the folder root, which
\* precedes every Project target.
C12_ProjectsAndFolder ==
    WholeListReturned =>
        \A i \in OwningFolders :
            (OwnCsprojs(i) # {} /\ OwnSolutions(i) = {} /\ OwnProjectJsons(i) = {}) =>
                /\ Cardinality(TargetsIn(i, "Project")) = Cardinality(OwnCsprojs(i))
                /\ \A p \in TargetsIn(i, "Project") :
                      /\ targets[p].target = targets[p].directory
                      /\ \E k \in OwnCsprojs(i) :
                            targets[p].directory = dirname(resources[k].fsPath)
                /\ Cardinality(TargetsIn(i, "Folder")) = 1
                /\ \A f \in TargetsIn(i, "Folder") :
                      /\ IsRootTarget(targets[f])
                      /\ targets[f].target = workspaceFolders[i + 1]
                      /\ targets[f].directory = workspaceFolders[i + 1]
                      /\ \A p \in DOMAIN targets :
                            targets[p].workspaceKind = "Project" => f < p

\* the number of loose-source Folder targets of folder i
LooseSourceTargets(i) ==
    {k \in TargetsIn(i, "Folder") :
        /\ IsLooseSourceTarget(targets[k])
        /\ targets[k].target = workspaceFolders[i + 1]
        /\ targets[k].directory = workspaceFolders[i + 1]}

\* C13: the loose-source Folder target of a folder is emitted if and only if
\* a .cs file was seen in that folder and that folder has no solution, no
\* csproj and no project.json, whatever the other folders hold.
C13_LooseSourcePerFolder ==
    WholeListReturned =>
        \A i \in OwningFolders :
            (LooseSourceTargets(i) # {}) <=>
                /\ \E k \in OwnedIdx(i) : isCs(resources[k])
                /\ OwnSolutions(i) = {}
                /\ OwnCsprojs(i) = {}
                /\ OwnProjectJsons(i) = {}

\* the number of targets of the given kind a folder must get for its files
\* selected by Is: one if it has such a file, none if it has none
OnePerFolder(i, kind, Is(_)) ==
    /\ Cardinality(TargetsIn(i, kind)) =
          (IF \E k \in OwnedIdx(i) : Is(resources[k]) THEN 1 ELSE 0)
    /\ \A t \in TargetsIn(i, kind) :
          /\ targets[t].target = workspaceFolders[i + 1]
          /\ targets[t].directory = workspaceFolders[i + 1]

\* C14: every folder gets exactly one Csx target, pointing at the folder
\* root, when it has one or more .csx files and none when it has none; the
\* same holds for .cake files and the Cake target, each independently of the
\* other.
C14_OneCsxOneCake ==
    WholeListReturned =>
        \A i \in 0 .. Len(workspaceFolders) - 1 :
            /\ OnePerFolder(i, "Csx", isCsx)
            /\ OnePerFolder(i, "Cake", isCake)

\* two folders are processed; the first has the same .csx file reported
\* twice, the second has neither a .csx nor a .cake file: one Csx target
C14_Witness ==
    /\ WholeListReturned
    /\ Len(resources) = 3
    /\ resources[1] = File(DirA, XCsx)
    /\ resources[2] = File(DirA, XCsx)
    /\ resources[3] = File(DirB, XCs)
    /\ Cardinality(TargetsIn(0, "Csx")) = 1
    /\ TargetsIn(1, "Csx") = {}

\* a local resource that lies in no folder of the editor's workspace
IsOutside(resource) ==
    resource.scheme \notin disabledSchemes /\ getWorkspaceFolder(resource) = {}

\* the resources of the call without those outside every folder
WithoutOutside == SelectSeq(resources, LAMBDA r : ~IsOutside(r))

\* C17: the call never throws, whatever the resources, the folder list and
\* the owning folders (an owning-folder index outside the supplied list
\* included); resources outside every folder produce no target and leave the
\* targets of the folders as they are without them.
C17_NeverThrows ==
    cpc # "input" =>
        /\ cpc = "returned"
        /\ \A t \in DOMAIN targets : \A k \in DOMAIN resources :
              IsOutside(resources[k]) =>
                  targets[t].directory # dirname(resources[k].fsPath)
        /\ LocalResources(WithoutOutside) # <<>> =>
              targets = resourcesToLaunchTargets(WithoutOutside, workspaceFolders,
                                                 maxProjectResults).list

\* the positions of the local resources that lie in a workspace folder
InFolderIdx ==
    {k \in DOMAIN resources :
        /\ resources[k].scheme \notin disabledSchemes
        /\ getWorkspaceFolder(resources[k]) # {}}

\* the file categories a resource falls into
FileCategories(resource) ==
    {c \in {"Solution", "ProjectJson", "Project"} :
        \/ c = "Solution" /\ isSolution(resource)
        \/ c = "ProjectJson" /\ isProjectJson(resource)
        \/ c = "Project" /\ isCSharpProject(resource)}

\* kind, target and directory of the file-level target of a resource
FileTargetOf(resource) ==
    LET kind == CHOOSE c \in FileCategories(resource) : TRUE
    IN [workspaceKind |-> kind,
        label |-> basename(resource.fsPath),
        target |-> IF kind = "Solution" THEN resource.fsPath
                   ELSE dirname(resource.fsPath),
        directory |-> dirname(resource.fsPath)]

FileTargetIdx ==
    {t \in DOMAIN targets :
        targets[t].workspaceKind \in {"Solution", "ProjectJson", "Project"}}

SameFileTarget(t, ft) ==
    /\ t.workspaceKind = ft.workspaceKind
    /\ t.label = ft.label
    /\ t.target = ft.target
    /\ t.directory = ft.directory

RejectedByResolver == [state |-> "rejected", value |-> <<"resolver failed">>]

\* C15: when the resolver of the selected strategy rejects, the promise of
\* launchOmniSharp is rejected with the resolver's reason, no process is
\* spawned for the call, no other resolver or strategy is tried, and nothing
\* more happens in the call.
C15_ResolverRejection ==
    [][/\ (lpc = "awaiting" /\ lpc' = "rejected" /\ spawned' = spawned) =>
              /\ promise' = RejectedByResolver
              /\ strategies' = strategies
              /\ consulted' = consulted
       /\ promise' = RejectedByResolver =>
              /\ spawned' = <<>>
              /\ result' = <<>>
              /\ Len(strategies') = 1
              /\ strategies'[1] \in {"dotnet", "mono"}
              /\ consulted' = ResolverOf(strategies'[1])
       /\ (lpc = "rejected" /\ launches' = launches) =>
              UNCHANGED <<spawned, promise, strategies, consulted>>]_vars

\* the resolver of the managed-runtime strategy rejected on Windows: no cmd
\* shell was tried
C15_Witness ==
    /\ lpc = "rejected"
    /\ promise = RejectedByResolver
    /\ strategies = <<"dotnet">>
    /\ isWindows
    /\ spawned = <<>>

\* C16: once the promise is resolved, on 'spawn', with the launch result, a
\* later 'error' of the same process leaves it resolved with that result; and
\* the promise of a call whose process has emitted 'spawn' first is never
\* rejected.
C16_PostSpawnErrorIgnored ==
    [][/\ (promise.state = "resolved" /\ launches' = launches) => promise' = promise
       /\ promise'.state = "resolved" =>
              /\ promise'.value = result'
              /\ \E k \in DOMAIN emitted' : emitted'[k] = "spawn"
       /\ (emitted' # <<>> /\ emitted'[1] = "spawn") => promise'.state # "rejected"]_vars

(***************************************************************************)
(* Properties of the launcher: command lines.                              *)
(***************************************************************************)
DotnetSpawned == strategies = <<"dotnet">> /\ spawned # <<>>

\* C18: the managed-runtime strategy spawns launchPath itself with the
\* incoming arguments when launchPath does not end in '.dll'; otherwise it
\* spawns 'dotnet.exe' on Windows and 'dotnet' elsewhere with launchPath
\* followed by the incoming arguments; the environment is dotnetResolver's.
C18_DotnetCommand ==
    DotnetSpawned =>
        /\ Len(spawned) = 1
        /\ spawned[1].env = HostInfo("dotnetResolver").env
        /\ IF launchPath[Len(launchPath)] # ".dll"
           THEN /\ spawned[1].command = launchPath
                /\ spawned[1].args = StrategyArgs
           ELSE /\ spawned[1].command =
                       (IF isWindows THEN <<"dotnet", ".exe">> ELSE <<"dotnet">>)
                /\ spawned[1].args = <<launchPath>> \o StrategyArgs

\* a self-contained executable launched on Windows with two arguments
C18_Witness ==
    /\ DotnetSpawned
    /\ isWindows
    /\ launchPath = <<"/o/run">>
    /\ spawned[1].command = <<"/o/run">>
    /\ Len(spawned[1].args) = 2

FormattingKeys ==
    <<"formattingOptions:useTabs=", "formattingOptions:tabSize=",
      "formattingOptions:indentationSize=">>

IsFormattingKey(token) == \E k \in DOMAIN FormattingKeys : FormattingKeys[k] = token

\* the number of formatting arguments in a list of arguments
FormattingCount(args) ==
    Cardinality({k \in DOMAIN args : args[k] # <<>> /\ IsFormattingKey(args[k][1])})

\* the list of arguments ends with the three formatting arguments, in order
EndsWithFormatting(args) ==
    /\ Len(args) >= 3
    /\ \A k \in 1 .. 3 :
          LET a == args[Len(args) - 3 + k]
          IN Len(a) = 2 /\ a[1] = FormattingKeys[k]

\* the cmd line ends with the three formatting arguments, in order, each
\* after a space, and the closing quote
LineEndsWithFormatting(line) ==
    /\ Len(line) >= 10
    /\ line[Len(line)] = Quote
    /\ \A k \in 1 .. 3 :
          /\ line[Len(line) - 10 + 3 * (k - 1) + 1] = Space
          /\ line[Len(line) - 10 + 3 * (k - 1) + 2] = FormattingKeys[k]

\* C19: with useEditorFormattingSettings each strategy spawns a command line
\* that ends with the useTabs, tabSize and indentationSize arguments, in this
\* order, behind the arguments of the call and the arguments the strategy
\* prepends; without it the command line holds no formatting argument beyond
\* those of the call.
C19_FormattingArgsLast ==
    spawned # <<>> =>
        LET argv == spawned[1].args
            line == argv[1]
            added == IF options.useEditorFormattingSettings THEN 3 ELSE 0
        IN IF strategies[1] = "windows"
           THEN /\ options.useEditorFormattingSettings => LineEndsWithFormatting(line)
                /\ Cardinality({k \in DOMAIN line : IsFormattingKey(line[k])}) =
                      FormattingCount(argsAtCall) + added
           ELSE /\ options.useEditorFormattingSettings =>
                      /\ EndsWithFormatting(argv)
                      /\ Len(argv) >= Len(argsAtCall) + 3
                      /\ SubSeq(argv, Len(argv) - 2 - Len(argsAtCall), Len(argv) - 3)
                            = argsAtCall
                /\ FormattingCount(argv) = FormattingCount(argsAtCall) + added

\* the cmd shell strategy with two arguments of the call and the formatting
\* arguments behind them
C19_Witness ==
    /\ strategies = <<"windows">>
    /\ spawned # <<>>
    /\ options.useEditorFormattingSettings
    /\ Len(argsAtCall) = 2
    /\ LineEndsWithFormatting(spawned[1].args[1])

(***************************************************************************)
(* Properties of the launcher: the cmd line, ordering, ownership.          *)
(***************************************************************************)
WindowsSpawned == strategies = <<"windows">> /\ spawned # <<>>

\* C21: the cmd shell strategy spawns 'cmd' with windowsVerbatimArguments
\* and one argument string: '/s /c "', the tokens joined by spaces, '"'; the
\* first token is the launch path, unchanged, in one pair of double quotes,
\* and the escaped arguments follow in their order.
C21_CmdLine ==
    WindowsSpawned =>
        /\ Len(spawned) = 1
        /\ spawned[1].command = <<"cmd">>
        /\ spawned[1].verbatim
        /\ spawned[1].args =
              << <<"/s", Space, "/c", Space, Quote>>
                   \o JoinSpace(<< <<Quote>> \o launchPath \o <<Quote>> >>
                                  \o MapEscape(StrategyArgs))
                   \o <<Quote>> >>

\* C22: spawn is issued only when the formatting arguments, if enabled, are
\* in the argument vector and the resolver of the strategy, if it has one,
\* has fulfilled; the spawn call then carries the resolver's environment, and
\* the call's arguments and environment are not changed afterwards.
C22_AssemblyBeforeSpawn ==
    [][/\ (spawned' # <<>> /\ spawned' # spawned) =>
              /\ Len(spawned') = 1
              /\ options'.useEditorFormattingSettings =>
                    IF strategies'[1] = "windows"
                    THEN LineEndsWithFormatting(spawned'[1].args[1])
                    ELSE EndsWithFormatting(spawned'[1].args)
              /\ strategies'[1] # "windows" =>
                    /\ lpc = "awaiting"
                    /\ strategies' = strategies
                    /\ consulted' = ResolverOf(strategies[1])
                    /\ \A r \in consulted : spawned'[1].env = HostInfo(r).env
       /\ (spawned # <<>> /\ launches' = launches) => spawned' = spawned]_vars

\* mono was spawned with the formatting arguments and the resolver's
\* environment, and the process has emitted an event since
C22_Witness ==
    /\ MonoSpawned
    /\ options.useEditorFormattingSettings
    /\ spawned[1].env = HostInfo("monoResolver").env
    /\ emitted # <<>>

\* C23: a call issues spawn at most once and the spawn call stays as it was
\* issued (no retry, no termination); a spawn that throws rejects the promise
\* with what was thrown, and an 'error' emitted as the first lifecycle event
\* rejects it with that error.
C23_SpawnAtMostOnce ==
    [][/\ Len(spawned') <= 1
       /\ (spawned # <<>> /\ launches' = launches) => spawned' = spawned
       /\ (lpc' = "rejected" /\ spawned' # <<>>) =>
              promise' = [state |-> "rejected", value |-> <<"spawn threw">>]
       /\ (emitted' # <<>> /\ emitted'[1] = "error") =>
              promise' = [state |-> "rejected", value |-> <<"error event">>]]_vars

(***************************************************************************)
(* Properties of the classifier: order and determinism.                    *)
(***************************************************************************)
\* the position in the resource list of the first local resource of the
\* folder (0-based index i) that owns a resource
FirstSeen(i) == CHOOSE k \in OwnedIdx(i) : \A j \in OwnedIdx(i) : k <= j

\* the folder a synthetic target points at
FolderOf(t) == CHOOSE i \in getWorkspaceFolder([fsPath |-> t.directory]) : TRUE

\* Csx before Cake before the loose-source Folder target
OtherRank(t) ==
    CASE t.workspaceKind = "Csx" -> 1
      [] t.workspaceKind = "Cake" -> 2
      [] OTHER -> 3

\* C24: the targets of the other bucket are in discovery order: folders in
\* the order in which their first local resource is listed, and within one
\* folder Csx, Cake, loose-source Folder.
C24_OtherInDiscoveryOrder ==
    (cpc = "returned" /\ targets # <<vslsTarget>>) =>
        \A i, j \in DOMAIN targets :
            (i < j /\ BucketOf(targets[i]) = 1 /\ BucketOf(targets[j]) = 1) =>
                LET fi == FolderOf(targets[i])
                    fj == FolderOf(targets[j])
                IN \/ FirstSeen(fi) < FirstSeen(fj)
                   \/ fi = fj /\ OtherRank(targets[i]) < OtherRank(targets[j])

\* the second folder is listed first: its loose-source target precedes the
\* Csx and the Cake target of the first folder, whose cake file is listed
\* ahead of its csx file
C24_Witness ==
    /\ cpc = "returned"
    /\ resources = <<File(DirB, XCs), File(DirA, XCake), File(DirA, XCsx)>>
    /\ Len(targets) = 3
    /\ targets[1].directory = DirB
    /\ targets[2].workspaceKind = "Csx"
    /\ targets[3].workspaceKind = "Cake"

\* the multiset of (kind, directory, target) of a list of targets
TargetKey(t) == <<t.workspaceKind, t.directory, t.target>>

MultisetOf(list) ==
    [key \in {TargetKey(list[k]) : k \in DOMAIN list} |->
        Cardinality({k \in DOMAIN list : TargetKey(list[k]) = key})]

\* C25: with no limit, every listing order of the same resources yields the
\* same multiset of targets (kind, directory, target).
C25_OrderIndependent ==
    WholeListReturned =>
        \A f \in Permutations(DOMAIN resources) :
            LET listed == [k \in DOMAIN resources |-> resources[f[k]]]
                r == resourcesToLaunchTargets(listed, workspaceFolders, maxProjectResults)
            IN ~r.threw /\ MultisetOf(r.list) = MultisetOf(targets)

(***************************************************************************)
(* Properties of the classifier: project.json at the folder root.          *)
(***************************************************************************)
\* the only project files of folder i are project.json files, one of them
\* exactly at the folder root
RootProjectJsonOnly(i) ==
    /\ OwnSolutions(i) = {}
    /\ OwnCsprojs(i) = {}
    /\ \E k \in OwnProjectJsons(i) :
          dirname(resources[k].fsPath) = workspaceFolders[i + 1]

HasRootProjectJsonTarget(i) ==
    \E k \in DOMAIN targets :
        /\ targets[k].workspaceKind = "ProjectJson"
        /\ targets[k].directory = workspaceFolders[i + 1]

\* the folders processed before folder i: those whose first resource is
\* listed ahead of the first resource of i
ProcessedBefore(i) == {j \in OwningFolders : FirstSeen(j) < FirstSeen(i)}

\* C26 as stated: a folder whose only project files are project.json files,
\* one at the folder root, gets a synthetic Folder target for the root next
\* to the ProjectJson target of the same directory.
C26_RedundantPair ==
    WholeListReturned =>
        \A i \in OwningFolders :
            RootProjectJsonOnly(i) =>
                HasRootProjectJsonTarget(i) /\ HasRootTarget(i)

\* C26 amended: such a folder gets the ProjectJson target of its root and no
\* loose-source target; the project.json rule gives it no synthetic Folder
\* target, and the folder gets one exactly when the csproj rule fires, i.e.
\* when the folders processed before it hold a csproj and no solution.
C26_NoFolderForRootProjectJson ==
    WholeListReturned =>
        \A i \in OwningFolders :
            RootProjectJsonOnly(i) =>
                /\ HasRootProjectJsonTarget(i)
                /\ LooseSourceTargets(i) = {}
                /\ HasRootTarget(i) <=>
                      /\ \E j \in ProcessedBefore(i) : OwnCsprojs(j) # {}
                      /\ \A j \in ProcessedBefore(i) : OwnSolutions(j) = {}

\* one folder with a project.json at its root and one below it: two
\* ProjectJson targets and no Folder target
C26_Witness ==
    /\ WholeListReturned
    /\ resources = <<File(DirAN, ProjectJsonName), File(DirA, ProjectJsonName)>>
    /\ Len(targets) = 2
    /\ \A k \in DOMAIN targets : targets[k].workspaceKind = "ProjectJson"
    /\ targets[1].directory = DirA

(***************************************************************************)
(* Properties of the launcher: listeners, the caller's array, metadata.    *)
(***************************************************************************)
\* C27: in every interleaving and for every strategy both listeners are on
\* the process when it delivers its first lifecycle event, so that the
\* promise is settled as soon as an event has been emitted.
C27_ListenersBeforeFirstEvent ==
    [][/\ (emitted = <<>> /\ emitted' # <<>>) => listeners = {"error", "spawn"}
       /\ emitted' # <<>> => promise'.state # "pending"]_vars

\* C28: a call leaves the caller's array as it was when the call was made,
\* and two successive calls with the same array spawn with the same
\* arguments.
C28_CallerArgsUnchanged ==
    [][/\ lpc' # "idle" => callerArgs' = argsAtCall'
       /\ launches' # launches => callerArgs' = callerArgs
       /\ (launches' # launches /\ launches > 0) => argsAtCall' = argsAtCall]_vars

\* C29: the metadata of a launch result: hostIsMono exactly for the mono
\* strategy; hostVersion and hostPath those of the resolver the strategy
\* consulted, absent in the cmd shell strategy; command the launchPath as
\* passed in, whatever executable was spawned.
C29_ResultMetadata ==
    result # <<>> =>
        /\ Len(result) = 1
        /\ Len(strategies) = 1
        /\ result[1].command = launchPath
        /\ result[1].hostIsMono = (strategies[1] = "mono")
        /\ IF strategies[1] = "windows"
           THEN result[1].hostVersion = Undefined /\ result[1].hostPath = Undefined
           ELSE \A r \in ResolverOf(strategies[1]) :
                    /\ result[1].hostVersion = <<HostInfo(r).version>>
                    /\ result[1].hostPath = <<HostInfo(r).path>>
        /\ promise.state = "resolved" => promise.value = result

\* the managed runtime launched an assembly: 'dotnet' was spawned, the
\* command of the result is the assembly, and the promise resolved with it
C29_Witness ==
    /\ strategies = <<"dotnet">>
    /\ result # <<>>
    /\ spawned[1].command = <<"dotnet">>
    /\ result[1].command # spawned[1].command
    /\ result[1].hostPath = <<"/usr/share/dotnet/dotnet">>
    /\ promise.state = "resolved"

====
